---- MODULE Spec2Model ----
(***************************************************************************)
(* w3name: the IPNS record codec and validator (w3name/src/ipns/mod.rs)    *)
(* and the command-line tool built on it (w3name-cli/src/main.rs).         *)
(*                                                                         *)
(* Byte strings are modelled as TLA+ strings ("" is the empty byte string),*)
(* signatures and CBOR blobs as tuples (<<>> is the empty byte string).    *)
(* Machine integers keep a width: u64/i64 are W64 bits wide and i32 is W32 *)
(* bits wide, W32 < W64, so that the wrapping casts of the source wrap.    *)
(***************************************************************************)
EXTENDS Integers, Sequences, FiniteSets, TLC

VARIABLES
  pc,        \* codec pipeline: position of the caller
  rev,       \* codec pipeline: the Revision handed to revision_to_ipns_entry
  keypair,   \* codec pipeline: the signing Keypair
  pubkey,    \* codec pipeline: the PublicKey handed to validate_ipns_entry
  entry,     \* codec pipeline: the IpnsEntry in hand
  orig,      \* codec pipeline: the IpnsEntry before a top-level field was changed
  mutated,   \* codec pipeline: the top-level field that was changed, or "none"
  wire,      \* codec pipeline: the protobuf bytes
  vres,      \* codec pipeline: result of validate_ipns_entry
  pres,      \* codec pipeline: result of revision_from_ipns_entry
  runs,         \* CLI: number of the current run of the program
  cmd,          \* CLI: the command of this run and its arguments
  cpc,          \* CLI: position of the command's async fn
  resolved,     \* CLI: what client.resolve returned
  fallback,     \* CLI: what resolve_via_trustless_gateway returned
  new_revision, \* CLI: publish's new_revision
  res,          \* CLI: the command's Result, `res` in main
  failed,       \* CLI: the operations of this run that returned an error
  events,       \* CLI: the network exchanges of this run, starts and ends
  posted,       \* CLI: the records this run POSTed
  exit_code,    \* CLI: the process's exit code, -1 while it runs
  history       \* the sequence numbers POSTed by earlier runs that succeeded

codecVars == <<pc, rev, keypair, pubkey, entry, orig, mutated, wire, vres, pres>>
cliVars == <<runs, cmd, cpc, resolved, fallback, new_revision, res, failed,
             events, posted, exit_code, history>>
vars == <<pc, rev, keypair, pubkey, entry, orig, mutated, wire, vres, pres,
          runs, cmd, cpc, resolved, fallback, new_revision, res, failed,
          events, posted, exit_code, history>>

-----------------------------------------------------------------------------
(* Bounds *)

W64 == 4    \* modelled width, in bits, of u64 and i64
W32 == 2    \* modelled width, in bits, of i32
MaxRuns == 2    \* runs of the command-line program in a row
MaxSeq == 2     \* largest sequence number a looked-up record carries

-----------------------------------------------------------------------------
(* Machine integers *)

RECURSIVE Pow2(_)
Pow2(n) == IF n = 0 THEN 1 ELSE 2 * Pow2(n - 1)

U64Max == Pow2(W64) - 1
I64Max == Pow2(W64 - 1) - 1
I64Min == 0 - Pow2(W64 - 1)

\* `x as u64` for an i64 x: two's complement reinterpretation.
as_u64(x) == x % Pow2(W64)

\* `x as i32` for a u64 x: truncation to the low bits, then sign.
as_i32(x) ==
  LET m == x % Pow2(W32)
  IN  IF m >= Pow2(W32 - 1) THEN m - Pow2(W32) ELSE m

Ok(v) == [ok |-> TRUE, val |-> v]
Err(e) == [ok |-> FALSE, err |-> e]

\* i64::try_from(u64)
i64_try_from(u) == IF u <= I64Max THEN Ok(u) ELSE Err("TryFromIntError")

\* chrono::Duration::num_nanoseconds: None when the count does not fit an i64.
\* A Duration is modelled by its (unbounded) count of nanoseconds.
num_nanoseconds(d) ==
  IF d >= I64Min /\ d <= I64Max THEN [some |-> TRUE, val |-> d]
  ELSE [some |-> FALSE]

-----------------------------------------------------------------------------
(* Strings, timestamps *)

InvalidUtf8 == {"\\xff"}

\* std::str::from_utf8
from_utf8(b) == IF b \in InvalidUtf8 THEN Err("Utf8Error") ELSE Ok(b)

\* A DateTime<Utc> is an instant: seconds and nanoseconds since the epoch.
Instant(s, n) == [secs |-> s, nanos |-> n]

\* Revision::validity_string: RFC 3339, nanosecond digits, "Z" suffix.
format_rfc3339(t) ==
  CASE t = Instant(1735787045, 123456789) -> "2025-01-02T03:04:05.123456789Z"
    [] t = Instant(1735787045, 0)         -> "2025-01-02T03:04:05.000000000Z"
    [] t = Instant(1767323045, 1)         -> "2026-01-02T03:04:05.000000001Z"

\* DateTime::parse_from_rfc3339 followed by .into() DateTime<Utc>: the instant
\* the text denotes, whatever offset it is written with.
parse_from_rfc3339(s) ==
  CASE s = "2025-01-02T03:04:05.123456789Z"      -> Ok(Instant(1735787045, 123456789))
    [] s = "2025-01-02T03:04:05.000000000Z"      -> Ok(Instant(1735787045, 0))
    [] s = "2025-01-02T04:04:05+01:00"           -> Ok(Instant(1735787045, 0))
    [] s = "2026-01-02T03:04:05.000000001Z"      -> Ok(Instant(1767323045, 1))
    [] OTHER                                     -> Err("ParseError")

-----------------------------------------------------------------------------
(* Keys and signatures *)

\* A Keypair: its public half, and whether its signer rejects messages.
Keypair(p, bad) == [public |-> p, rejects |-> bad]

public(k) == k.public

\* Name: the identity multihash of the public key.
Name(p) == [key |-> p]

\* Keypair::sign
sign(k, msg) ==
  IF k.rejects THEN Err("SigningError") ELSE Ok(<<"sig", k.public, msg>>)

\* PublicKey::verify
verify(p, msg, sig) == sig = <<"sig", p, msg>>

-----------------------------------------------------------------------------
(* Revision (w3name/src/lib.rs), after the data model *)

\* Revision::new(name, value, validity, ttl, sequence)
Revision_new(name, value, validity, ttl, sequence) ==
  [name |-> name, value |-> value, validity |-> validity,
   sequence |-> sequence, ttl |-> ttl]

\* Revision::validity_string
validity_string(revision) == format_rfc3339(revision.validity)

-----------------------------------------------------------------------------
(* SignatureV2Data and its CBOR encoding *)

\* struct SignatureV2Data
SignatureV2Data(value, validity, validity_type, sequence, ttl) ==
  [Value |-> value, Validity |-> validity, ValidityType |-> validity_type,
   Sequence |-> sequence, TTL |-> ttl]

\* serde_cbor::to_vec on a SignatureV2Data: a definite-length map of five
\* entries with text keys, in the order the struct declares its fields.
cbor_to_vec(d) ==
  << <<"Value", d.Value>>, <<"Validity", d.Validity>>,
     <<"ValidityType", d.ValidityType>>, <<"Sequence", d.Sequence>>,
     <<"TTL", d.TTL>> >>

CborKeys == {"Value", "Validity", "ValidityType", "Sequence", "TTL"}

\* serde_cbor::from_slice into a SignatureV2Data: the five keys in any order,
\* other keys skipped; a missing or a repeated key is an error.
cbor_from_slice(bytes) ==
  LET at(k) == {i \in 1..Len(bytes) : bytes[i][1] = k}
      get(k) == bytes[CHOOSE i \in at(k) : TRUE][2]
  IN  IF \A k \in CborKeys : Cardinality(at(k)) = 1
      THEN Ok(SignatureV2Data(get("Value"), get("Validity"), get("ValidityType"),
                              get("Sequence"), get("TTL")))
      ELSE Err("CborError")

-----------------------------------------------------------------------------
(* IpnsEntry and its protobuf encoding *)

\* IpnsEntry::default()
DefaultEntry ==
  [value |-> "", signature |-> <<>>, validity_type |-> 0, validity |-> "",
   sequence |-> 0, ttl |-> 0, pub_key |-> "", signature_v2 |-> <<>>,
   data |-> <<>>]

\* The field numbers of the IPNS protobuf schema.
FieldOfTag ==
  <<"value", "signature", "validity_type", "validity", "sequence", "ttl",
    "pub_key", "signature_v2", "data">>

RECURSIVE encode_from(_, _)
encode_from(e, tag) ==
  IF tag > Len(FieldOfTag) THEN <<>>
  ELSE LET f == FieldOfTag[tag]
       IN  (IF e[f] = DefaultEntry[f] THEN <<>> ELSE << <<tag, e[f]>> >>)
             \o encode_from(e, tag + 1)

\* serialize_ipns_entry: proto3 encoding, fields in tag order, a field holding
\* its default value is not written.
serialize_ipns_entry(e) == Ok(encode_from(e, 1))

RECURSIVE decode_into(_, _, _)
decode_into(e, bytes, i) ==
  IF i > Len(bytes) THEN e
  ELSE LET tag == bytes[i][1]
       IN  IF tag \in 1..Len(FieldOfTag)
           THEN decode_into([e EXCEPT ![FieldOfTag[tag]] = bytes[i][2]], bytes, i + 1)
           ELSE decode_into(e, bytes, i + 1)

\* deserialize_ipns_entry: absent fields take their default, unknown field
\* numbers are skipped, field number 0 is a decode error.
deserialize_ipns_entry(bytes) ==
  IF \E i \in 1..Len(bytes) : bytes[i][1] = 0
  THEN Err("IpnsError/DecodeError")
  ELSE Ok(decode_into(DefaultEntry, bytes, 1))

-----------------------------------------------------------------------------
(* The codec and the validator *)

v1_signature_data(value_bytes, validity_bytes) ==
  <<value_bytes \o "EOL" \o validity_bytes>>

v2_signature_data(value, validity, sequence, ttl) ==
  Ok(cbor_to_vec(SignatureV2Data(value, validity, 0, sequence, ttl)))

create_v2_signature(signer, sig_data) ==
  sign(signer, <<"ipns-signature:">> \o sig_data)

\* A builder that also fills the top-level (v1) fields, as a hybrid record.
Hybrid_revision_to_ipns_entry(revision, signer) ==
  LET nn == num_nanoseconds(revision.ttl)
      ttl == as_u64(IF nn.some THEN nn.val ELSE I64Max)
      data == v2_signature_data(revision.value, validity_string(revision),
                                revision.sequence, ttl)
      signature_v2 == create_v2_signature(signer, data.val)
  IN  IF ~signature_v2.ok THEN Err("IpnsError/SigningError")
      ELSE Ok([DefaultEntry EXCEPT !.signature_v2 = signature_v2.val,
                                   !.data = data.val,
                                   !.value = revision.value,
                                   !.validity = validity_string(revision),
                                   !.sequence = revision.sequence,
                                   !.ttl = ttl])

revision_to_ipns_entry(revision, signer) ==
  LET nn == num_nanoseconds(revision.ttl)
      ttl == as_u64(IF nn.some THEN nn.val ELSE I64Max)
      data == v2_signature_data(revision.value, validity_string(revision),
                                revision.sequence, ttl)
  IN  IF ~data.ok THEN Err("IpnsError/CborError")
      ELSE LET signature_v2 == create_v2_signature(signer, data.val)
           IN  IF ~signature_v2.ok THEN Err("IpnsError/SigningError")
               ELSE Ok([DefaultEntry EXCEPT !.signature_v2 = signature_v2.val,
                                            !.data = data.val])

validate_v2_signature(public_key, sig, data) ==
  IF verify(public_key, <<"ipns-signature:">> \o data, sig)
  THEN Ok("unit") ELSE Err("InvalidIpnsV2Signature")

\* A consistency check whose v2-only test also asks for validity_type = 0.
Strict_validate_v2_data_matches_entry_data(e) ==
  IF e.data = <<>> THEN Err("InvalidIpnsV2SignatureData")
  ELSE LET data == cbor_from_slice(e.data)
       IN  IF ~data.ok THEN Err("InvalidIpnsV2SignatureData")
           ELSE LET is_v2_only == /\ e.value = ""
                                  /\ e.validity = ""
                                  /\ e.ttl = 0
                                  /\ e.sequence = 0
                                  /\ e.validity_type = 0
                IN  IF is_v2_only THEN Ok("unit")
                    ELSE IF \/ e.value # data.val.Value
                            \/ e.validity # data.val.Validity
                            \/ e.sequence # data.val.Sequence
                            \/ e.ttl # data.val.TTL
                            \/ e.validity_type # as_i32(data.val.ValidityType)
                         THEN Err("InvalidIpnsV2SignatureData")
                         ELSE Ok("unit")

validate_v2_data_matches_entry_data(e) ==
  IF e.data = <<>> THEN Err("InvalidIpnsV2SignatureData")
  ELSE LET data == cbor_from_slice(e.data)
       IN  IF ~data.ok THEN Err("InvalidIpnsV2SignatureData")
           ELSE LET is_v2_only == /\ e.value = ""
                                  /\ e.validity = ""
                                  /\ e.ttl = 0
                                  /\ e.sequence = 0
                IN  IF is_v2_only THEN Ok("unit")
                    ELSE IF \/ e.value # data.val.Value
                            \/ e.validity # data.val.Validity
                            \/ e.sequence # data.val.Sequence
                            \/ e.ttl # data.val.TTL
                            \/ e.validity_type # as_i32(data.val.ValidityType)
                         THEN Err("InvalidIpnsV2SignatureData")
                         ELSE Ok("unit")

validate_v1_signature(e, public_key) ==
  IF verify(public_key, v1_signature_data(e.value, e.validity), e.signature)
  THEN Ok("unit") ELSE Err("InvalidIpnsV1Signature")

\* A validator that falls back to the v1 signature when the v2 one is bad.
Fallback_validate_ipns_entry(e, public_key) ==
  IF e.signature_v2 # <<>> /\ e.data # <<>>
  THEN LET s == validate_v2_signature(public_key, e.signature_v2, e.data)
       IN  IF ~s.ok THEN validate_v1_signature(e, public_key)
           ELSE validate_v2_data_matches_entry_data(e)
  ELSE validate_v1_signature(e, public_key)

validate_ipns_entry(e, public_key) ==
  IF e.signature_v2 # <<>> /\ e.data # <<>>
  THEN LET s == validate_v2_signature(public_key, e.signature_v2, e.data)
       IN  IF ~s.ok THEN s
           ELSE validate_v2_data_matches_entry_data(e)
  ELSE validate_v1_signature(e, public_key)

\* The branch of revision_from_ipns_entry that reads the CBOR payload.
revision_from_cbor(e, name) ==
  LET data == cbor_from_slice(e.data)
  IN  IF ~data.ok THEN Err("IpnsError/CborError")
      ELSE LET value == from_utf8(data.val.Value)
               validity_str == from_utf8(data.val.Validity)
           IN  IF ~value.ok THEN Err("IpnsError/Utf8Error")
               ELSE IF ~validity_str.ok THEN Err("IpnsError/Utf8Error")
               ELSE LET validity == parse_from_rfc3339(validity_str.val)
                        ttl == i64_try_from(data.val.TTL)
                    IN  IF ~validity.ok THEN Err("IpnsError/ParseError")
                        ELSE IF ~ttl.ok THEN Err("IpnsError/TryFromIntError")
                        ELSE Ok(Revision_new(name, value.val, validity.val,
                                             ttl.val, data.val.Sequence))

\* The branch of revision_from_ipns_entry that reads the protobuf fields.
revision_from_fields(e, name) ==
  LET value == from_utf8(e.value)
      validity_str == from_utf8(e.validity)
  IN  IF ~value.ok THEN Err("IpnsError/Utf8Error")
      ELSE IF ~validity_str.ok THEN Err("IpnsError/Utf8Error")
      ELSE LET validity == parse_from_rfc3339(validity_str.val)
               ttl == i64_try_from(e.ttl)
           IN  IF ~validity.ok THEN Err("IpnsError/ParseError")
               ELSE IF ~ttl.ok THEN Err("IpnsError/TryFromIntError")
               ELSE Ok(Revision_new(name, value.val, validity.val, ttl.val,
                                    e.sequence))

revision_from_ipns_entry(e, name) ==
  IF e.data # <<>> THEN revision_from_cbor(e, name)
  ELSE revision_from_fields(e, name)

-----------------------------------------------------------------------------
(* Inputs of the codec pipeline *)

T1 == Instant(1735787045, 123456789)
T2 == Instant(1767323045, 1)

Keypairs == {Keypair("p1", FALSE), Keypair("p2", FALSE), Keypair("p3", TRUE)}
PublicKeys == {"p1", "p2"}

RevValues == {"", "a"}
RevValidities == {T1, T2}
RevSequences == {0, 1, U64Max}
\* Durations, as nanosecond counts: negative, zero, the i64 extremes and the
\* first counts beyond them.
RevTtls == {I64Min - 1, 0 - 1, 0, 1, I64Max, I64Max + 1}

NoRevision == Revision_new(Name("none"), "", T1, 0, 0)
NoKeypair == Keypair("none", TRUE)
NoResult == Err("none")

\* The values a top-level field of a received IpnsEntry is changed to.
FieldValues(f) ==
  CASE f = "value"         -> {"", "a", "b"}
    [] f = "validity"      -> {"", format_rfc3339(T1), format_rfc3339(T2)}
    [] f = "sequence"      -> {0, 1, U64Max}
    [] f = "ttl"           -> {0, 1, U64Max}
    [] f = "validity_type" -> {0 - 1, 0, 1}

V1Fields == {"value", "validity", "sequence", "ttl", "validity_type"}

\* Entries as they may arrive from the network: v1, v2-only and hybrid
\* records, with payloads that agree or disagree with the top-level fields.
Payloads ==
  {SignatureV2Data(v, format_rfc3339(T1), vt, s, t) :
     v \in {"", "a"}, vt \in {0, Pow2(W32)}, s \in {0, 1}, t \in {0, U64Max}}

Blobs ==
  {<<>>,
   << <<"garbage", "">> >>,
   << <<"TTL", 1>>, <<"Sequence", 1>>, <<"ValidityType", 0>>,
      <<"Validity", format_rfc3339(T2)>>, <<"Value", "b">>, <<"Extra", "">> >>}
  \cup {cbor_to_vec(d) : d \in Payloads}

SignedBy(p, msg) == <<"sig", p, msg>>

ReceivedEntries ==
  {[value |-> v, validity |-> vy, sequence |-> s, ttl |-> t,
    validity_type |-> vt, pub_key |-> "",
    signature |-> IF s1 = "none" THEN <<>> ELSE SignedBy(s1, v1_signature_data(v, vy)),
    signature_v2 |-> IF s2 = "none" THEN <<>> ELSE SignedBy(s2, <<"ipns-signature:">> \o d),
    data |-> d] :
     v \in {"", "a", "b"}, vy \in {"", format_rfc3339(T1)}, s \in {0, 1},
     t \in {0, U64Max}, vt \in {0, 1}, s1 \in {"none", "p1", "p2"},
     s2 \in {"none", "p1", "p2"}, d \in Blobs}

GarbageWire == << <<0, "">> >>

-----------------------------------------------------------------------------
(* The codec pipeline: build, serialize, deserialize, validate, project *)

NoReport == Err([api |-> FALSE, status_code |-> 0])

\* The command-line program is not running.
CliOff ==
  /\ runs = 0
  /\ cmd = [name |-> "none"]
  /\ cpc = "off"
  /\ resolved = NoReport
  /\ fallback = NoResult
  /\ new_revision = NoRevision
  /\ res = Ok("unit")
  /\ failed = {}
  /\ events = <<>>
  /\ posted = <<>>
  /\ exit_code = 0 - 1
  /\ history = <<>>

InitCodec ==
  /\ pc = "revision"
  /\ keypair \in Keypairs
  /\ rev \in {Revision_new(Name(public(keypair)), v, vy, t, s) :
                v \in RevValues, vy \in RevValidities, t \in RevTtls,
                s \in RevSequences}
  /\ pubkey \in PublicKeys
  /\ entry = DefaultEntry
  /\ orig = DefaultEntry
  /\ mutated = "none"
  /\ wire = <<>>
  /\ vres = NoResult
  /\ pres = NoResult
  /\ CliOff

InitReceive ==
  /\ pc = "serialized"
  /\ keypair = NoKeypair
  /\ rev = NoRevision
  /\ pubkey = "p1"
  /\ entry = DefaultEntry
  /\ orig = DefaultEntry
  /\ mutated = "none"
  /\ wire \in {serialize_ipns_entry(e).val : e \in ReceivedEntries} \cup {GarbageWire}
  /\ vres = NoResult
  /\ pres = NoResult
  /\ CliOff

\* let entry = revision_to_ipns_entry(&rev, keypair)
Build ==
  /\ pc = "revision"
  /\ LET r == revision_to_ipns_entry(rev, keypair)
     IN  IF r.ok
         THEN /\ entry' = r.val
              /\ orig' = r.val
              /\ pc' = "built"
         ELSE /\ UNCHANGED <<entry, orig>>
              /\ pc' = "failed"
  /\ UNCHANGED <<rev, keypair, pubkey, mutated, wire, vres, pres, cliVars>>

\* let bytes = serialize_ipns_entry(&entry)
Serialize ==
  /\ pc = "built"
  /\ wire' = serialize_ipns_entry(entry).val
  /\ pc' = "serialized"
  /\ UNCHANGED <<rev, keypair, pubkey, entry, orig, mutated, vres, pres, cliVars>>

\* let entry = deserialize_ipns_entry(&bytes)
Deserialize ==
  /\ pc = "serialized"
  /\ LET r == deserialize_ipns_entry(wire)
     IN  IF r.ok
         THEN /\ entry' = r.val
              /\ orig' = r.val
              /\ pc' = "received"
         ELSE /\ UNCHANGED <<entry, orig>>
              /\ pc' = "failed"
  /\ UNCHANGED <<rev, keypair, pubkey, mutated, wire, vres, pres, cliVars>>

\* A holder of the record changes one top-level protobuf field and leaves
\* signature_v2 and data alone.
Mutate ==
  /\ pc = "received"
  /\ mutated = "none"
  /\ \E f \in V1Fields : \E v \in FieldValues(f) :
       /\ v # entry[f]
       /\ entry' = [entry EXCEPT ![f] = v]
       /\ mutated' = f
  /\ UNCHANGED <<pc, rev, keypair, pubkey, orig, wire, vres, pres, cliVars>>

\* validate_ipns_entry(&entry, &public_key)
Validate ==
  /\ pc = "received"
  /\ vres' = validate_ipns_entry(entry, pubkey)
  /\ pc' = "validated"
  /\ UNCHANGED <<rev, keypair, pubkey, entry, orig, mutated, wire, pres, cliVars>>

\* revision_from_ipns_entry(&entry, &name), called as every caller in the
\* sources calls it: on an entry that validate_ipns_entry accepted.
Project ==
  /\ pc = "validated"
  /\ vres.ok
  /\ pres' = revision_from_ipns_entry(entry, Name(pubkey))
  /\ pc' = "projected"
  /\ UNCHANGED <<rev, keypair, pubkey, entry, orig, mutated, wire, vres, cliVars>>

NextCodec == Build \/ Serialize \/ Deserialize \/ Mutate \/ Validate \/ Project

SpecCodec == InitCodec /\ [][NextCodec]_vars

NextReceive == Deserialize \/ Mutate \/ Validate \/ Project

SpecReceive == InitReceive /\ [][NextReceive]_vars

-----------------------------------------------------------------------------
(* The library the command-line program calls (w3name/src/lib.rs and the    *)
(* client), after the component design                                      *)

\* The wall clock plus the default one-year lifetime.
NowPlusOneYear == T2

\* Revision::v0(name, value): sequence 0, the default ttl.
Revision_v0(name, value) == Revision_new(name, value, NowPlusOneYear, 1, 0)

\* Revision::increment(&self, value): sequence + 1, same name and ttl.
Revision_increment(r, value) ==
  Revision_new(r.name, value, NowPlusOneYear, r.ttl, r.sequence + 1)

\* Name::to_string and Name::parse: the "k"-prefixed text form of a Name.
Name_to_string(n) == "k51-" \o n.key

Name_parse(str) ==
  CASE str = "k51-p1" -> Ok(Name("p1"))
    [] str = "k51-p2" -> Ok(Name("p2"))
    [] OTHER          -> Err("InvalidName")

\* Name::from_bytes: the Name of a public key given as bytes.
Name_from_bytes(b) == IF b \in PublicKeys THEN Ok(Name(b)) ELSE Err("InvalidName")

\* Name::public_key
Name_public_key(n) == n.key

\* WritableName::decode: the keypair a key file holds.
WritableName_decode(bytes) ==
  IF bytes = "keypair-p1" THEN Ok(Keypair("p1", FALSE)) ELSE Err("InvalidKey")

\* ClientError reports: an APIError with its status code, or a transport error.
APIError(code) == [api |-> TRUE, status_code |-> code]
Transport == [api |-> FALSE, status_code |-> 0]

-----------------------------------------------------------------------------
(* The command-line program *)

\* is_404: the report holds an APIError whose status is 404.
is_404(report) == report.api /\ report.status_code = 404

\* The same test for status 500.
is_500(report) == report.api /\ report.status_code = 500

\* An HTTP response of the trustless gateway: whether the request got through,
\* the status, whether the body could be read, the body.
Response(sent, status, readable, bytes) ==
  [sent |-> sent, status |-> status, readable |-> readable, bytes |-> bytes]

NoResponse == Response(FALSE, 0, FALSE, <<>>)

\* StatusCode::is_success
is_success(status) == status >= 200 /\ status < 300

\* A gateway fallback that hands on whatever record it is given, unvalidated.
Trusting_resolve_via_trustless_gateway(name_str, response) ==
  LET e == deserialize_ipns_entry(response.bytes)
      name == Name_parse(name_str)
  IN  IF ~response.sent \/ ~is_success(response.status) \/ ~response.readable
         \/ ~e.ok \/ ~name.ok
      THEN Err("Resolve")
      ELSE LET revision == revision_from_ipns_entry(e.val, name.val)
           IN  IF ~revision.ok THEN Err("Resolve") ELSE Ok(revision.val)

\* resolve_via_trustless_gateway, given the response its request meets.
resolve_via_trustless_gateway(name_str, response) ==
  IF ~response.sent THEN Err("Resolve")
  ELSE IF ~is_success(response.status) THEN Err("Resolve")
  ELSE IF ~response.readable THEN Err("Resolve")
  ELSE LET e == deserialize_ipns_entry(response.bytes)
           name == Name_parse(name_str)
       IN  IF ~e.ok THEN Err("Resolve")
           ELSE IF ~name.ok THEN Err("Resolve")
           ELSE LET v == validate_ipns_entry(e.val, Name_public_key(name.val))
                    revision == revision_from_ipns_entry(e.val, name.val)
                IN  IF ~v.ok THEN Err("Resolve")
                    ELSE IF ~revision.ok THEN Err("Resolve")
                    ELSE Ok(revision.val)

\* A publish that falls back to the gateway on every resolve error.
Eager_needs_fallback(r) == ~r.ok

\* publish: the resolve error sends it to the trustless gateway.
needs_fallback(r) == ~r.ok /\ ~is_404(r.err)

\* A publish that starts afresh whenever the client resolve failed.
Fresh_publish_new_revision(name, value, r, g) ==
  IF r.ok THEN Revision_increment(r.val, value) ELSE Revision_v0(name, value)

\* publish: new_revision, from what resolve (r) and the gateway (g) returned.
publish_new_revision(name, value, r, g) ==
  IF r.ok THEN Revision_increment(r.val, value)
  ELSE IF is_404(r.err) THEN Revision_v0(name, value)
  ELSE IF g.ok THEN Revision_increment(g.val, value)
  ELSE Revision_v0(name, value)

\* resolve: the command's Result, from what client.resolve returned.
resolve_result(r) ==
  IF r.ok THEN Ok("unit")
  ELSE IF is_404(r.err) THEN Ok("unit")
  ELSE Err("Resolve")

\* A main that forgets to exit with 1.
Zero_exit_status(r) == 0

\* main: exit(1) on Err, and 0 by returning.
exit_status(r) == IF r.ok THEN 0 ELSE 1

\* parse_record on the text it is given or reads.
parse_record(text) ==
  LET entry_bytes == IF text[1] = "base64" THEN Ok(text[2]) ELSE Err("DecodeError")
  IN  IF ~entry_bytes.ok THEN [res |-> Err("Parse"), failed |-> "base64_decode"]
      ELSE LET e == deserialize_ipns_entry(entry_bytes.val)
           IN  IF ~e.ok THEN [res |-> Err("Parse"), failed |-> "deserialize"]
               ELSE LET name == Name_from_bytes(e.val.pub_key)
                    IN  IF ~name.ok THEN [res |-> Err("Parse"), failed |-> "name_from_bytes"]
                        ELSE LET v == validate_ipns_entry(e.val, Name_public_key(name.val))
                                 r == revision_from_ipns_entry(e.val, name.val)
                             IN  IF ~v.ok THEN [res |-> Err("Parse"), failed |-> "validate"]
                                 ELSE IF ~r.ok THEN [res |-> Err("Parse"), failed |-> "project"]
                                 ELSE [res |-> Ok("unit"), failed |-> "none"]

(* Inputs of the command-line program and answers of the services *)

KeyFile == Keypair("p1", FALSE)
OtherKey == Keypair("p2", FALSE)
CliValues == {"x", "y"}

Built(r, k) == revision_to_ipns_entry(r, k).val
Wire(e) == serialize_ipns_entry(e).val

\* What client.resolve may return for a name.
ResolveOutcomes(name) ==
  {Ok(Revision_new(name, "old", T1, 1, n)) : n \in 0..MaxSeq}
    \cup {Err(APIError(404)), Err(APIError(500)), Err(Transport)}

\* Records the gateway may serve: signed by the name's key, signed by another
\* key, undecodable, and signed by the name's key with a TTL above i64::MAX.
GatewayBodies ==
  {Wire(Built(Revision_new(Name("p1"), "old", T1, 1, n), KeyFile)) : n \in 0..MaxSeq}
    \cup {Wire(Built(Revision_new(Name("p2"), "old", T1, 1, MaxSeq), OtherKey)),
          GarbageWire,
          Wire(Built(Revision_new(Name("p1"), "old", T1, 0 - 1, MaxSeq), KeyFile))}

GatewayResponses ==
  {NoResponse, Response(TRUE, 404, TRUE, <<>>), Response(TRUE, 500, TRUE, <<>>),
   Response(TRUE, 200, FALSE, <<>>)}
    \cup {Response(TRUE, 200, TRUE, b) : b \in GatewayBodies}

ParseTexts ==
  {<<"not base64">>, <<"base64", GarbageWire>>}
    \cup {<<"base64", Wire([Built(Revision_new(Name("p1"), "old", T1, t, 1), KeyFile)
                             EXCEPT !.pub_key = p])>> :
            t \in {0 - 1, 1}, p \in {"", "p1", "p2"}}

Commands ==
  {[name |-> "resolve", arg |-> a, value |-> ""] : a \in {"k51-p1", "bogus"}}
    \cup {[name |-> "publish", arg |-> a, value |-> v] :
            a \in {"unreadable", "corrupt", "keypair-p1"}, v \in CliValues}
    \cup {[name |-> "create", arg |-> "", value |-> ""]}
    \cup {[name |-> "parse", arg |-> a, value |-> ""] : a \in {"stdin", "argument"}}

\* A run of the program starts in main with its command parsed.
StartRun(n, c) ==
  /\ runs = n
  /\ cmd = c
  /\ cpc = "main"
  /\ resolved = NoReport
  /\ fallback = [response |-> NoResponse, result |-> NoResult]
  /\ new_revision = NoRevision
  /\ res = Ok("unit")
  /\ failed = {}
  /\ events = <<>>
  /\ posted = <<>>
  /\ exit_code = 0 - 1

CodecOff ==
  /\ pc = "off"
  /\ rev = NoRevision
  /\ keypair = NoKeypair
  /\ pubkey = "p1"
  /\ entry = DefaultEntry
  /\ orig = DefaultEntry
  /\ mutated = "none"
  /\ wire = <<>>
  /\ vres = NoResult
  /\ pres = NoResult

InitCli ==
  /\ CodecOff
  /\ history = <<>>
  /\ \E c \in Commands : StartRun(1, c)

\* publish: fs::read and WritableName::decode.
PublishReadKey ==
  /\ cpc = "main" /\ cmd.name = "publish"
  /\ IF cmd.arg = "unreadable"
     THEN res' = Err("Other") /\ failed' = failed \cup {"fs_read"} /\ cpc' = "exit"
     ELSE IF ~WritableName_decode(cmd.arg).ok
     THEN res' = Err("Other") /\ failed' = failed \cup {"decode_key"} /\ cpc' = "exit"
     ELSE UNCHANGED <<res, failed>> /\ cpc' = "resolve"
  /\ UNCHANGED <<runs, cmd, resolved, fallback, new_revision, events, posted,
                 exit_code, history, codecVars>>

\* publish: client.resolve(&writable.to_name()) is sent.
PublishResolveStart ==
  /\ cpc = "resolve"
  /\ events' = Append(events, "resolve_start")
  /\ cpc' = "resolving"
  /\ UNCHANGED <<runs, cmd, resolved, fallback, new_revision, res, failed,
                 posted, exit_code, history, codecVars>>

\* publish: client.resolve returns; the match on its result.
PublishResolveEnd ==
  /\ cpc = "resolving"
  /\ LET name == Name(public(WritableName_decode(cmd.arg).val))
     IN  \E r \in ResolveOutcomes(name) :
           /\ resolved' = r
           /\ events' = Append(events, IF r.ok THEN "resolve_ok"
                                       ELSE IF r.err = APIError(404) THEN "resolve_404"
                                       ELSE "resolve_error")
           /\ failed' = IF r.ok THEN failed ELSE failed \cup {"resolve"}
           /\ IF needs_fallback(r)
              THEN cpc' = "gateway" /\ UNCHANGED new_revision
              ELSE /\ cpc' = "publish"
                   /\ new_revision' = publish_new_revision(name, cmd.value, r, NoResult)
  /\ UNCHANGED <<runs, cmd, fallback, res, posted, exit_code, history, codecVars>>

\* publish: resolve_via_trustless_gateway sends its GET.
PublishGatewayStart ==
  /\ cpc = "gateway"
  /\ events' = Append(events, "gateway_start")
  /\ cpc' = "gateway_wait"
  /\ UNCHANGED <<runs, cmd, resolved, fallback, new_revision, res, failed,
                 posted, exit_code, history, codecVars>>

\* publish: resolve_via_trustless_gateway returns; the match on its result.
PublishGatewayEnd ==
  /\ cpc = "gateway_wait"
  /\ LET writable == WritableName_decode(cmd.arg).val
         name == Name(public(writable))
     IN  \E response \in GatewayResponses :
           LET g == resolve_via_trustless_gateway(Name_to_string(name), response)
           IN  /\ fallback' = [response |-> response, result |-> g]
               /\ events' = Append(events, IF g.ok THEN "gateway_ok" ELSE "gateway_error")
               /\ failed' = IF g.ok THEN failed ELSE failed \cup {"gateway"}
               /\ new_revision' = publish_new_revision(name, cmd.value, resolved, g)
  /\ cpc' = "publish"
  /\ UNCHANGED <<runs, cmd, resolved, res, posted, exit_code, history, codecVars>>

\* publish: client.publish(&writable, &new_revision) POSTs the record.
PublishPostStart ==
  /\ cpc = "publish"
  /\ posted' = Append(posted, new_revision)
  /\ events' = Append(events, "post_start")
  /\ cpc' = "posting"
  /\ UNCHANGED <<runs, cmd, resolved, fallback, new_revision, res, failed,
                 exit_code, history, codecVars>>

\* publish: client.publish returns.
PublishPostEnd ==
  /\ cpc = "posting"
  /\ \E ok \in BOOLEAN :
       /\ events' = Append(events, IF ok THEN "post_ok" ELSE "post_error")
       /\ res' = IF ok THEN Ok("unit") ELSE Err("Publish")
       /\ failed' = IF ok THEN failed ELSE failed \cup {"publish"}
       /\ history' = IF ok THEN Append(history, new_revision.sequence) ELSE history
  /\ cpc' = "exit"
  /\ UNCHANGED <<runs, cmd, resolved, fallback, new_revision, posted, exit_code,
                 codecVars>>

\* resolve: Name::parse, then client.resolve(&name) is sent.
ResolveStart ==
  /\ cpc = "main" /\ cmd.name = "resolve"
  /\ IF Name_parse(cmd.arg).ok
     THEN /\ events' = Append(events, "resolve_start")
          /\ cpc' = "resolving_name"
          /\ UNCHANGED <<res, failed>>
     ELSE /\ res' = Err("Resolve")
          /\ failed' = failed \cup {"name_parse"}
          /\ cpc' = "exit"
          /\ UNCHANGED events
  /\ UNCHANGED <<runs, cmd, resolved, fallback, new_revision, posted, exit_code,
                 history, codecVars>>

\* resolve: client.resolve returns; the match on its result.
ResolveEnd ==
  /\ cpc = "resolving_name"
  /\ \E r \in ResolveOutcomes(Name_parse(cmd.arg).val) :
       /\ resolved' = r
       /\ events' = Append(events, IF r.ok THEN "resolve_ok"
                                   ELSE IF r.err = APIError(404) THEN "resolve_404"
                                   ELSE "resolve_error")
       /\ failed' = IF r.ok THEN failed ELSE failed \cup {"resolve"}
       /\ res' = resolve_result(r)
  /\ cpc' = "exit"
  /\ UNCHANGED <<runs, cmd, fallback, new_revision, posted, exit_code, history,
                 codecVars>>

\* create: to_protobuf_encoding, then fs::write.
Create ==
  /\ cpc = "main" /\ cmd.name = "create"
  /\ \E encoded \in BOOLEAN, written \in BOOLEAN :
       IF ~encoded
       THEN res' = Err("Create") /\ failed' = failed \cup {"to_protobuf_encoding"}
       ELSE IF ~written
       THEN res' = Err("Create") /\ failed' = failed \cup {"fs_write"}
       ELSE res' = Ok("unit") /\ UNCHANGED failed
  /\ cpc' = "exit"
  /\ UNCHANGED <<runs, cmd, resolved, fallback, new_revision, events, posted,
                 exit_code, history, codecVars>>

\* parse: the record from the argument, or read from standard input.
Parse ==
  /\ cpc = "main" /\ cmd.name = "parse"
  /\ \E readable \in BOOLEAN, text \in ParseTexts :
       IF cmd.arg = "stdin" /\ ~readable
       THEN res' = Err("Parse") /\ failed' = failed \cup {"read_stdin"}
       ELSE LET p == parse_record(text)
            IN  /\ res' = p.res
                /\ failed' = IF p.res.ok THEN failed ELSE failed \cup {p.failed}
  /\ cpc' = "exit"
  /\ UNCHANGED <<runs, cmd, resolved, fallback, new_revision, events, posted,
                 exit_code, history, codecVars>>

\* main: the process ends.
Exit ==
  /\ cpc = "exit"
  /\ exit_code' = exit_status(res)
  /\ cpc' = "done"
  /\ UNCHANGED <<runs, cmd, resolved, fallback, new_revision, res, failed,
                 events, posted, history, codecVars>>

\* The program is run again.
NextRun ==
  /\ cpc = "done"
  /\ runs < MaxRuns
  /\ \E c \in Commands :
       /\ runs' = runs + 1
       /\ cmd' = c
       /\ cpc' = "main"
       /\ resolved' = NoReport
       /\ fallback' = [response |-> NoResponse, result |-> NoResult]
       /\ new_revision' = NoRevision
       /\ res' = Ok("unit")
       /\ failed' = {}
       /\ events' = <<>>
       /\ posted' = <<>>
       /\ exit_code' = 0 - 1
  /\ UNCHANGED <<history, codecVars>>

NextCli ==
  \/ PublishReadKey \/ PublishResolveStart \/ PublishResolveEnd
  \/ PublishGatewayStart \/ PublishGatewayEnd
  \/ PublishPostStart \/ PublishPostEnd
  \/ ResolveStart \/ ResolveEnd
  \/ Create \/ Parse \/ Exit \/ NextRun

SpecCli == InitCli /\ [][NextCli]_vars

-----------------------------------------------------------------------------
(* Properties of the codec pipeline *)

FromRevision == rev # NoRevision
MatchingKey == pubkey = public(keypair)
Validated == pc \in {"validated", "projected"}
V2SignatureVerifies(e) ==
  verify(pubkey, <<"ipns-signature:">> \o e.data, e.signature_v2)

\* C1: when revision_to_ipns_entry succeeds the Entry is v2-only: signature_v2
\* and data are non-empty, value, validity, signature and pub_key are empty,
\* and sequence, ttl and validity_type are 0, whatever the Revision holds.
C1_V2OnlyEntry ==
  pc = "built" =>
    /\ entry.signature_v2 # <<>>
    /\ entry.data # <<>>
    /\ entry.value = ""
    /\ entry.validity = ""
    /\ entry.signature = <<>>
    /\ entry.pub_key = ""
    /\ entry.sequence = 0
    /\ entry.ttl = 0
    /\ entry.validity_type = 0

C1_Witness ==
  /\ pc = "built"
  /\ rev.value = "a"
  /\ rev.sequence = U64Max
  /\ rev.ttl = I64Max + 1

\* C2: round trip. Built from a Revision r with the keypair of r.name,
\* serialized, deserialized and left unchanged, the Entry validates with that
\* keypair's public key and projects to a Revision equal to r.
C2_RoundTrip ==
  (FromRevision /\ MatchingKey /\ mutated = "none") =>
    /\ Validated => vres.ok
    /\ pc = "projected" => (pres.ok /\ pres.val = rev)

\* C3 as stated: after a v2-only Entry built by revision_to_ipns_entry has one
\* of its top-level fields changed, validation with the matching key is Ok.
C3_TopLevelIgnored ==
  (FromRevision /\ MatchingKey /\ Validated /\ mutated # "none") => vres.ok

\* C3 as amended: changing validity_type leaves validation Ok; changing value,
\* validity, sequence or ttl leaves it Ok only when all five top-level fields
\* then equal the payload's, and otherwise fails it with InvalidV2Data.
C3_TopLevelCompared ==
  (FromRevision /\ MatchingKey /\ Validated /\ mutated # "none") =>
    LET d == cbor_from_slice(entry.data).val
        agree == /\ entry.value = d.Value
                 /\ entry.validity = d.Validity
                 /\ entry.sequence = d.Sequence
                 /\ entry.ttl = d.TTL
                 /\ entry.validity_type = d.ValidityType
    IN  IF mutated = "validity_type" \/ agree THEN vres.ok
        ELSE ~vres.ok /\ vres.err = "InvalidIpnsV2SignatureData"

C3_Witness ==
  /\ FromRevision /\ MatchingKey /\ pc = "validated"
  /\ mutated = "validity_type"
  /\ entry.validity_type # 0
  /\ entry.data # <<>>
  /\ vres.ok

\* C4: hybrid consistency. An Entry whose signature_v2 verifies, with
\* non-empty data and at least one non-default top-level field (before the
\* change, and still after it), has one top-level field changed; if that
\* field then differs from the payload's (exact bytes, exact integers),
\* validation fails with InvalidV2Data.
C4_HybridConsistency ==
  (/\ Validated
   /\ mutated # "none"
   /\ entry.data # <<>>
   /\ V2SignatureVerifies(entry)
   /\ \E f \in V1Fields : orig[f] # DefaultEntry[f]
   /\ \E f \in V1Fields : entry[f] # DefaultEntry[f]
   /\ cbor_from_slice(entry.data).ok
   /\ LET d == cbor_from_slice(entry.data).val
      IN  \/ mutated = "value" /\ entry.value # d.Value
          \/ mutated = "validity" /\ entry.validity # d.Validity
          \/ mutated = "sequence" /\ entry.sequence # d.Sequence
          \/ mutated = "ttl" /\ entry.ttl # d.TTL
          \/ mutated = "validity_type" /\ entry.validity_type # d.ValidityType)
  => (~vres.ok /\ vres.err = "InvalidIpnsV2SignatureData")

\* C5: revision_from_ipns_entry reads the CBOR payload exactly when
\* signature_v2 and data are both non-empty (the case in which
\* validate_ipns_entry checks the v2 signature), and the top-level fields in
\* every other case.
C5_ProjectAgreesWithValidate ==
  pc = "projected" =>
    LET name == Name(pubkey)
        want == IF entry.signature_v2 # <<>> /\ entry.data # <<>>
                THEN revision_from_cbor(entry, name)
                ELSE revision_from_fields(entry, name)
    IN  /\ pres.ok = want.ok
        /\ pres.ok => pres.val = want.val

\* C10: an Entry with non-empty signature_v2 and data whose signature_v2 does
\* not verify over "ipns-signature:" || data fails with InvalidV2Signature,
\* whatever data decodes to and whatever its v1 signature is.
C10_BadV2Signature ==
  (/\ Validated
   /\ entry.signature_v2 # <<>>
   /\ entry.data # <<>>
   /\ ~V2SignatureVerifies(entry))
  => (~vres.ok /\ vres.err = "InvalidIpnsV2Signature")

C10_Witness ==
  /\ pc = "validated"
  /\ entry.signature_v2 # <<>>
  /\ entry.data # <<>>
  /\ ~V2SignatureVerifies(entry)
  /\ ~cbor_from_slice(entry.data).ok
  /\ verify(pubkey, v1_signature_data(entry.value, entry.validity), entry.signature)
  /\ vres.err = "InvalidIpnsV2Signature"

-----------------------------------------------------------------------------
(* Properties of the command-line program *)

Publishing == cmd.name = "publish"
KeyFileName == Name(public(KeyFile))
Exited == exit_code # 0 - 1

\* The gateway answered with a record that decodes, validates against the key
\* file's public key and projects to a Revision.
GatewayRecord ==
  LET r == fallback.response
      e == deserialize_ipns_entry(r.bytes)
  IN  IF r.sent /\ r.status = 200 /\ r.readable /\ e.ok
      THEN IF validate_ipns_entry(e.val, public(KeyFile)).ok
           THEN revision_from_ipns_entry(e.val, KeyFileName)
           ELSE Err("invalid")
      ELSE Err("no record")

\* C6: publish POSTs one record, with the key file's name and the new value;
\* its sequence is n+1 when resolve returned sequence n, or when resolve
\* failed with a non-404 error and the gateway returned a validated record of
\* sequence n, and 0 when resolve returned 404 or resolve and gateway failed.
C6_PublishSequence ==
  (Publishing /\ Len(posted) > 0) =>
    /\ Len(posted) = 1
    /\ posted[1].name = KeyFileName
    /\ posted[1].value = cmd.value
    /\ posted[1].sequence =
         IF resolved.ok THEN resolved.val.sequence + 1
         ELSE IF resolved.err = APIError(404) THEN 0
         ELSE IF GatewayRecord.ok THEN GatewayRecord.val.sequence + 1
         ELSE 0

C6_Witness ==
  /\ Publishing /\ Len(posted) = 1
  /\ ~resolved.ok /\ resolved.err = APIError(500)
  /\ GatewayRecord.ok
  /\ GatewayRecord.val.sequence = MaxSeq
  /\ posted[1].sequence = MaxSeq + 1
  /\ posted[1].value = "y"

ResolveEnds == {"resolve_ok", "resolve_404", "resolve_error"}
GatewayEnds == {"gateway_ok", "gateway_error"}
PostEnds == {"post_ok", "post_error"}

\* C7: the network exchanges of publish are sequential and happen at most
\* once each: resolve first; the gateway request only after resolve ended with
\* a non-404 error; the POST only after resolve and, if it ran, the gateway
\* ended.
C7_Sequential ==
  Publishing =>
    \A i \in 1..Len(events) :
      /\ events[i] = "resolve_start" => i = 1
      /\ events[i] \in ResolveEnds => (i = 2 /\ events[1] = "resolve_start")
      /\ events[i] = "gateway_start" => (i = 3 /\ events[2] = "resolve_error")
      /\ events[i] \in GatewayEnds => (i = 4 /\ events[3] = "gateway_start")
      /\ events[i] = "post_start" =>
           \/ i = 3 /\ events[2] \in {"resolve_ok", "resolve_404"}
           \/ i = 5 /\ events[4] \in GatewayEnds
      /\ events[i] \in PostEnds => (i > 1 /\ events[i - 1] = "post_start")

C7_Witness ==
  /\ Publishing
  /\ events = <<"resolve_start", "resolve_error", "gateway_start",
                "gateway_error", "post_start", "post_ok">>

\* C8 as stated: the process exits 0 only if every operation of the run
\* succeeded, or the command is resolve and its only failure was a 404; in
\* every other run it exits 1.
C8_NoSilentSuccess ==
  Exited =>
    (exit_code = 0 <=>
       \/ failed = {}
       \/ (cmd.name = "resolve" /\ failed = {"resolve"}
             /\ resolved.err = APIError(404)))

\* C8 as amended: besides the 404 of the resolve command, the publish command
\* passes over every error of its resolve and of its gateway fallback; every
\* other error makes the process exit 1.
C8_ExitCode ==
  Exited =>
    (exit_code = 0 <=>
       \/ failed = {}
       \/ (cmd.name = "resolve" /\ failed = {"resolve"}
             /\ resolved.err = APIError(404))
       \/ (Publishing /\ failed \subseteq {"resolve", "gateway"}))

C8_Witness ==
  /\ Publishing
  /\ failed = {"resolve", "gateway"}
  /\ resolved.err = Transport
  /\ exit_code = 0

\* C9 as stated: the record a publish run POSTs has a sequence number greater
\* than or equal to that of every record an earlier successful run POSTed.
C9_NeverDecreases ==
  (Publishing /\ cpc = "posting") =>
    \A i \in 1..Len(history) : posted[1].sequence >= history[i]

\* C9 as amended: that holds of a run whose resolve, or whose gateway fallback
\* after a non-404 resolve error, returned a record with a sequence number at
\* least that of every record POSTed by an earlier successful run (the run
\* then POSTs a greater one); a run whose resolve returned 404, or whose
\* resolve and gateway both failed, POSTs sequence 0 whatever went before.
C9_BestEffort ==
  (Publishing /\ cpc = "posting") =>
    LET found == IF resolved.ok THEN resolved
                 ELSE IF resolved.err = APIError(404) THEN Err("404")
                 ELSE GatewayRecord
    IN  IF found.ok
        THEN (\A i \in 1..Len(history) : found.val.sequence >= history[i])
               => \A i \in 1..Len(history) : posted[1].sequence > history[i]
        ELSE posted[1].sequence = 0

C9_Witness ==
  /\ Publishing /\ cpc = "posting"
  /\ runs = 2
  /\ Len(history) = 1
  /\ ~resolved.ok /\ resolved.err = APIError(500)
  /\ GatewayRecord.ok
  /\ GatewayRecord.val.sequence = history[1]
  /\ posted[1].sequence = history[1] + 1

=============================================================================
